---- MODULE Spec2Model ----
(***************************************************************************)
(* Course planner: the in-memory prerequisite engine of enhancement-two    *)
(* (course list, hash-map index, DFS validator) and the SQLite mirror of   *)
(* enhancement-three (courses / prerequisites tables, recursive          *)
(* prerequisite-chain query).                                              *)
(*                                                                         *)
(* Strings are sequences of one-character strings, so that strip() and     *)
(* upper() are computed and not assumed.                                   *)
(***************************************************************************)
EXTENDS Integers, Sequences, FiniteSets, TLC

VARIABLES
    csvfile,        \* planner: the CSV file given to load_courses_from_csv
    courses,        \* planner: CoursePlanner.courses (list of Course)
    course_index,   \* planner: CoursePlanner.course_index (dict number -> Course)
    cache,          \* planner: content of the pickle cache file
    cache_exists,   \* planner: whether the pickle cache file exists
    build_pos,      \* planner: position of a running build_index (0: none)
    ret,            \* planner: what the last planner call returned
    db_courses,     \* database: rows of table courses
    db_prereqs,     \* database: rows of table prerequisites
    db_seq,         \* database: AUTOINCREMENT counter of courses.course_id
    chain_pc,       \* database: position of the running chain query
    chain_start,    \* database: normalized start course of the chain query
    chain_queue,    \* database: rows of the recursive CTE not yet expanded
    chain_rows,     \* database: rows the recursive CTE has produced
    db_ret          \* database: what the last database call returned

planner_vars ==
    <<csvfile, courses, course_index, cache, cache_exists, build_pos, ret>>
db_vars == <<db_courses, db_prereqs, db_seq, chain_pc, chain_start,
             chain_queue, chain_rows, db_ret>>
vars == <<csvfile, courses, course_index, cache, cache_exists, build_pos, ret,
          db_courses, db_prereqs, db_seq, chain_pc, chain_start, chain_queue,
          chain_rows, db_ret>>

---------------------------------------------------------------------------
(* Bounds *)

MaxRows == 2        \* lines of a CSV file given to the planner
MaxFields == 3      \* prerequisite fields of that file, all lines together
MaxDbRows == 2      \* lines of a CSV file given to migrate_from_csv
MaxDbPrereqs == 1   \* prerequisite fields of that file, all lines together
MaxCourseId == 3    \* cap of the AUTOINCREMENT counter of courses.course_id
MaxPrereqRows == 3  \* cap of the number of rows of table prerequisites
MaxLookupRows == 2  \* lines of a CSV file of the lookup specification
MaxCrudId == 2      \* cap of courses.course_id in the CRUD specification
MaxCrudPrereqs == 2 \* cap of the rows of prerequisites in that specification
MaxSessionRows == 2 \* lines of a CSV file of the session specification
MaxRebuildRows == 2 \* lines of a CSV file of the rebuild specification
MaxRebuildFields == 1 \* prerequisite fields of that file, all lines together
MaxMigrateRows == 2 \* lines of a CSV file of the migration specification

\* largest value of the level column of the recursive CTE in the model: on an
\* acyclic graph a level is smaller than the number of courses
MaxLevel == MaxCourseId

\* the interpreter's limit on nested calls (sys.getrecursionlimit(), 1000 in
\* CPython), scaled to the catalogs of the model: a catalog of the planner
\* specification (at most MaxRows courses) stays below it, as a catalog of a
\* few hundred courses stays below 1000
RecursionLimit == MaxRows + 2

\* lines of a CSV file of the deep-catalog specification: one more than the
\* nested calls the interpreter allows
MaxChain == RecursionLimit + 1

\* csv.field_size_limit() (131072 characters), scaled to the files of the
\* model: no ordinary field, the course numbers of a deep catalog included,
\* is longer
FieldSizeLimit == MaxChain

---------------------------------------------------------------------------
(* Strings: str.strip() and str.upper() *)

Range(s) == {s[i] : i \in 1..Len(s)}

UpperChar(ch) ==
    CASE ch = "a" -> "A"
      [] ch = "b" -> "B"
      [] ch = "c" -> "C"
      [] ch = "d" -> "D"
      [] ch = "n" -> "N"
      [] OTHER -> ch

Upper(s) == [i \in 1..Len(s) |-> UpperChar(s[i])]

IsBlank(s) == \A i \in 1..Len(s) : s[i] = " "

Strip(s) ==
    IF IsBlank(s) THEN <<>>
    ELSE LET first == CHOOSE i \in 1..Len(s) :
                          s[i] # " " /\ \A j \in 1..(i-1) : s[j] = " "
             last == CHOOSE i \in 1..Len(s) :
                          s[i] # " " /\ \A j \in (i+1)..Len(s) : s[j] = " "
         IN SubSeq(s, first, last)

---------------------------------------------------------------------------
(* models.Course *)

\* [prereq.strip().upper() for prereq in prerequisites if prereq.strip()]
RECURSIVE CleanPrerequisites(_)
CleanPrerequisites(prerequisites) ==
    IF prerequisites = <<>> THEN <<>>
    ELSE LET prereq == Head(prerequisites)
             rest == CleanPrerequisites(Tail(prerequisites))
         IN IF Strip(prereq) # <<>> THEN <<Upper(Strip(prereq))>> \o rest
            ELSE rest

\* Course(course_number, name, prerequisites) followed by __post_init__
Course(course_number, name, prerequisites) ==
    [course_number |-> Upper(Strip(course_number)),
     name          |-> Strip(name),
     prerequisites |-> CleanPrerequisites(prerequisites)]

---------------------------------------------------------------------------
(* course_planner.CoursePlanner: index *)

EmptyDict == [k \in {} |-> k]

\* d[key] = value on a dict
DictSet(d, key, value) ==
    [k \in (DOMAIN d) \cup {key} |-> IF k = key THEN value ELSE d[k]]

\* the loop of build_index: self.course_index[course.course_number] = course
RECURSIVE IndexInsertAll(_, _)
IndexInsertAll(index, cs) ==
    IF cs = <<>> THEN index
    ELSE IndexInsertAll(DictSet(index, Head(cs).course_number, Head(cs)),
                        Tail(cs))

\* BuildIndex without the clear: the previous entries are kept
BuildIndexKeepsPrevious(index, cs) == IndexInsertAll(index, cs)

\* build_index: clear the previous mapping, then insert every course in order
BuildIndex(index, cs) == IndexInsertAll(EmptyDict, cs)

\* get_course_count
GetCourseCountValue(cs) == Len(cs)

\* the record part of a lookup that returned None
NoCourse == [course_number |-> <<>>, name |-> <<>>, prerequisites |-> <<>>]

\* FindCourseFastValue with the query trimmed but not upper-cased
FindCourseFastValueNoUpper(index, course_number) ==
    LET search_number == Strip(course_number)
    IN IF search_number \in DOMAIN index
       THEN [raised |-> FALSE, found |-> TRUE, course |-> index[search_number]]
       ELSE [raised |-> FALSE, found |-> FALSE, course |-> NoCourse]

\* find_course_fast: self.course_index.get(course_number.strip().upper());
\* dict.get never raises for a string key, and the empty string is looked up
\* like any other
FindCourseFastValue(index, course_number) ==
    LET search_number == Upper(Strip(course_number))
    IN IF search_number \in DOMAIN index
       THEN [raised |-> FALSE, found |-> TRUE, course |-> index[search_number]]
       ELSE [raised |-> FALSE, found |-> FALSE, course |-> NoCourse]

\* the loop of find_course from the k-th record on: the first record whose
\* course_number equals the search number
RECURSIVE FindCourseFrom(_, _, _)
FindCourseFrom(cs, search_number, k) ==
    IF k > Len(cs)
    THEN [raised |-> FALSE, found |-> FALSE, course |-> NoCourse]
    ELSE IF cs[k].course_number = search_number
    THEN [raised |-> FALSE, found |-> TRUE, course |-> cs[k]]
    ELSE FindCourseFrom(cs, search_number, k + 1)

\* find_course: linear search for course_number.strip().upper()
FindCourseValue(cs, course_number) ==
    FindCourseFrom(cs, Upper(Strip(course_number)), 1)

---------------------------------------------------------------------------
(* course_planner.CoursePlanner: loading *)

\* [p.strip() for p in row[2:] if p.strip()]
RECURSIVE StripFields(_)
StripFields(fields) ==
    IF fields = <<>> THEN <<>>
    ELSE IF Strip(Head(fields)) # <<>>
         THEN <<Strip(Head(fields))>> \o StripFields(Tail(fields))
         ELSE StripFields(Tail(fields))

\* next(reader) raises csv.Error for a row with a field larger than the field
\* size limit
ReaderFails(row) == \E i \in 1..Len(row) : Len(row[i]) > FieldSizeLimit

\* the body of the reader loop for one row: the courses list after the row
ParseRow(cs, row) ==
    IF row = <<>> \/ \A i \in 1..Len(row) : Strip(row[i]) = <<>> THEN cs
    ELSE IF Len(row) < 2 THEN cs
    ELSE Append(cs, Course(Strip(row[1]), Strip(row[2]),
                           StripFields(SubSeq(row, 3, Len(row)))))

RECURSIVE ParseRows(_, _)
ParseRows(cs, rows) ==
    IF rows = <<>> THEN cs
    ELSE ParseRows(ParseRow(cs, Head(rows)), Tail(rows))

---------------------------------------------------------------------------
(* course_planner.CoursePlanner: validation *)

NoError == [kind |-> "none", course |-> <<>>, prereq |-> <<>>]

\* "Course {course} lists prerequisite {prereq} which does not exist in catalog"
MissingError(course, prereq) ==
    [kind |-> "missing", course |-> course, prereq |-> prereq]

\* "Circular dependency detected: {course} requires {prereq}, which is not possible"
CycleError(course, prereq) ==
    [kind |-> "cycle", course |-> course, prereq |-> prereq]

\* tuple(sorted([course_number, prereq_number])): the unordered pair
CyclePair(course_number, prereq_number) == {course_number, prereq_number}

\* inner loop of the existence pass, over the prerequisites of one course
RECURSIVE MissingOfCourse(_, _, _)
MissingOfCourse(index, course, k) ==
    IF k > Len(course.prerequisites) THEN <<>>
    ELSE IF course.prerequisites[k] \notin DOMAIN index
         THEN <<MissingError(course.course_number, course.prerequisites[k])>>
              \o MissingOfCourse(index, course, k + 1)
         ELSE MissingOfCourse(index, course, k + 1)

\* outer loop of the existence pass, over self.courses
RECURSIVE ExistencePass(_, _)
ExistencePass(index, cs) ==
    IF cs = <<>> THEN <<>>
    ELSE MissingOfCourse(index, Head(cs), 1) \o ExistencePass(index, Tail(cs))

\* the three sets of the cycle pass and the value a DFS call returned
\* depth counts the nested calls of _detect_cycle_dfs; raised says that a
\* call went beyond the recursion limit (RecursionError)
DfsInit ==
    [visited |-> {}, in_progress |-> {}, reported_cycles |-> {},
     error |-> NoError, depth |-> 0, raised |-> FALSE]

RECURSIVE DetectCycleDfs(_, _, _)
RECURSIVE DfsLoop(_, _, _, _)

\* DfsLoop with the course left on the path when its loop ends
DfsLoopLeavesPath(index, course_number, k, st) ==
    IF k > Len(index[course_number].prerequisites)
    THEN [st EXCEPT !.visited = @ \cup {course_number},
                    !.error = NoError]
    ELSE LET prereq_number == index[course_number].prerequisites[k]
         IN IF prereq_number \notin DOMAIN index
            THEN DfsLoop(index, course_number, k + 1, st)
            ELSE IF prereq_number \in st.in_progress
            THEN IF CyclePair(course_number, prereq_number)
                        \notin st.reported_cycles
                 THEN [st EXCEPT
                         !.reported_cycles =
                             @ \cup {CyclePair(course_number, prereq_number)},
                         !.error = CycleError(course_number, prereq_number)]
                 ELSE [st EXCEPT !.error = NoError]
            ELSE IF prereq_number \notin st.visited
            THEN LET r == DetectCycleDfs(index, prereq_number, st)
                 IN IF r.raised \/ r.error # NoError THEN r
                    ELSE DfsLoop(index, course_number, k + 1, r)
            ELSE DfsLoop(index, course_number, k + 1, st)

\* DfsLoop reporting a back-edge without looking at reported_cycles
DfsLoopNoDedup(index, course_number, k, st) ==
    IF k > Len(index[course_number].prerequisites)
    THEN [st EXCEPT !.in_progress = @ \ {course_number},
                    !.visited = @ \cup {course_number},
                    !.error = NoError]
    ELSE LET prereq_number == index[course_number].prerequisites[k]
         IN IF prereq_number \notin DOMAIN index
            THEN DfsLoop(index, course_number, k + 1, st)
            ELSE IF prereq_number \in st.in_progress
            THEN [st EXCEPT
                    !.reported_cycles =
                        @ \cup {CyclePair(course_number, prereq_number)},
                    !.error = CycleError(course_number, prereq_number)]
            ELSE IF prereq_number \notin st.visited
            THEN LET r == DetectCycleDfs(index, prereq_number, st)
                 IN IF r.raised \/ r.error # NoError THEN r
                    ELSE DfsLoop(index, course_number, k + 1, r)
            ELSE DfsLoop(index, course_number, k + 1, st)

\* the for loop of _detect_cycle_dfs from its k-th prerequisite on, and the
\* lines after the loop
DfsLoop(index, course_number, k, st) ==
    IF k > Len(index[course_number].prerequisites)
    THEN [st EXCEPT !.in_progress = @ \ {course_number},
                    !.visited = @ \cup {course_number},
                    !.error = NoError]
    ELSE LET prereq_number == index[course_number].prerequisites[k]
         IN IF prereq_number \notin DOMAIN index
            THEN DfsLoop(index, course_number, k + 1, st)
            ELSE IF prereq_number \in st.in_progress
            THEN IF CyclePair(course_number, prereq_number)
                        \notin st.reported_cycles
                 THEN [st EXCEPT
                         !.reported_cycles =
                             @ \cup {CyclePair(course_number, prereq_number)},
                         !.error = CycleError(course_number, prereq_number)]
                 ELSE [st EXCEPT !.error = NoError]
            ELSE IF prereq_number \notin st.visited
            THEN LET r == DetectCycleDfs(index, prereq_number, st)
                 IN IF r.raised \/ r.error # NoError THEN r
                    ELSE DfsLoop(index, course_number, k + 1, r)
            ELSE DfsLoop(index, course_number, k + 1, st)

\* _detect_cycle_dfs: the call is refused beyond the recursion limit
\* (RecursionError, which nothing in the validator catches); a call that
\* returns gives its frame back
DetectCycleDfs(index, course_number, st) ==
    IF st.depth + 1 > RecursionLimit
    THEN [st EXCEPT !.raised = TRUE, !.error = NoError]
    ELSE LET st1 == [st EXCEPT !.in_progress = @ \cup {course_number},
                               !.depth = @ + 1]
             r == IF course_number \notin DOMAIN index
                  THEN [st1 EXCEPT !.in_progress = @ \ {course_number},
                                   !.visited = @ \cup {course_number},
                                   !.error = NoError]
                  ELSE DfsLoop(index, course_number, 1, st1)
         IN IF r.raised THEN r ELSE [r EXCEPT !.depth = st.depth]

\* the root loop of the cycle pass after its first n iterations:
\* the three sets and the errors appended so far
RECURSIVE CyclePass(_, _, _)
CyclePass(index, cs, n) ==
    IF n = 0 THEN [sets |-> DfsInit, errors |-> <<>>]
    ELSE LET before == CyclePass(index, cs, n - 1)
             course == cs[n]
         IN IF before.sets.raised THEN before
            ELSE IF course.course_number \notin before.sets.visited
            THEN LET r == DetectCycleDfs(index, course.course_number,
                                         before.sets)
                 IN [sets |-> r,
                     errors |-> IF ~r.raised /\ r.error # NoError
                                THEN Append(before.errors, r.error)
                                ELSE before.errors]
            ELSE before

\* ValidatePrerequisites with is_valid taken from the cycle pass alone
ValidatePrerequisitesCycleOnly(index, cs) ==
    LET pass == CyclePass(index, cs, Len(cs))
        errors == ExistencePass(index, cs) \o pass.errors
    IN IF pass.sets.raised
       THEN [is_valid |-> FALSE, errors |-> <<>>, raised |-> TRUE]
       ELSE [is_valid |-> Len(pass.errors) = 0, errors |-> errors,
             raised |-> FALSE]

\* validate_prerequisites: the returned pair, or raised = TRUE when the
\* cycle pass raised and nothing is returned
ValidatePrerequisites(index, cs) ==
    LET pass == CyclePass(index, cs, Len(cs))
        errors == ExistencePass(index, cs) \o pass.errors
    IN IF pass.sets.raised
       THEN [is_valid |-> FALSE, errors |-> <<>>, raised |-> TRUE]
       ELSE [is_valid |-> Len(errors) = 0, errors |-> errors,
             raised |-> FALSE]

---------------------------------------------------------------------------
(* Planner operations *)

NoRet == [op |-> "none"]

\* the first row of the file at which csv.reader raises (a field larger
\* than the field size limit), 0 when every row can be read
FirstUnreadable(rows) ==
    IF \E i \in 1..Len(rows) : ReaderFails(rows[i])
    THEN CHOOSE i \in 1..Len(rows) :
             /\ ReaderFails(rows[i])
             /\ \A j \in 1..(i - 1) : ~ReaderFails(rows[j])
    ELSE 0

\* load_courses_from_csv on an existing readable file: clear, parse every
\* row, build the index, validate (the result is only printed), save the
\* cache.  An exception of the validation is caught by "except Exception":
\* the cache is not saved and False is returned.  An exception of the reader
\* is caught the same way: the rows before it stay in self.courses, the
\* index stays cleared, and False is returned.
LoadCoursesFromCsv ==
    /\ \E k \in {FirstUnreadable(csvfile)} :
          IF k > 0
          THEN /\ courses' = ParseRows(<<>>, SubSeq(csvfile, 1, k - 1))
               /\ course_index' = EmptyDict
               /\ cache' = cache
               /\ cache_exists' = cache_exists
               /\ ret' = [op |-> "load", loaded |-> FALSE]
          ELSE /\ courses' = ParseRows(<<>>, csvfile)
               /\ course_index' = BuildIndex(EmptyDict, courses')
               /\ \E v \in {ValidatePrerequisites(course_index', courses')} :
                     IF v.raised
                     THEN /\ cache' = cache
                          /\ cache_exists' = cache_exists
                          /\ ret' = [op |-> "load", loaded |-> FALSE]
                     ELSE /\ cache' = courses'
                          /\ cache_exists' = TRUE
                          /\ ret' = [op |-> "load", loaded |-> TRUE]
    /\ UNCHANGED <<csvfile, build_pos, db_vars>>

\* validate_prerequisites called on the planner
Validate ==
    /\ ret' = [op |-> "validate",
               value |-> ValidatePrerequisites(course_index, courses)]
    /\ UNCHANGED <<csvfile, courses, course_index, cache, cache_exists,
                   build_pos, db_vars>>

\* get_course_count called on the planner
GetCourseCount ==
    /\ ret' = [op |-> "count", count |-> GetCourseCountValue(courses)]
    /\ UNCHANGED <<csvfile, courses, course_index, cache, cache_exists,
                   build_pos, db_vars>>

\* find_course_fast called on the planner
FindCourseFast(course_number) ==
    /\ ret' = [op |-> "find", query |-> course_number,
               result |-> FindCourseFastValue(course_index, course_number)]
    /\ UNCHANGED <<csvfile, courses, course_index, cache, cache_exists,
                   build_pos, db_vars>>

\* find_course called on the planner
FindCourse(course_number) ==
    /\ ret' = [op |-> "find_linear", query |-> course_number,
               result |-> FindCourseValue(courses, course_number)]
    /\ UNCHANGED <<csvfile, courses, course_index, cache, cache_exists,
                   build_pos, db_vars>>

\* load_from_cache: False when there is no cache file; otherwise
\* self.courses = pickle.load(f), then build_index()
LoadFromCache ==
    /\ IF ~cache_exists
       THEN /\ ret' = [op |-> "cache", loaded |-> FALSE]
            /\ UNCHANGED <<courses, course_index>>
       ELSE /\ courses' = cache
            /\ course_index' = BuildIndex(course_index, courses')
            /\ ret' = [op |-> "cache", loaded |-> TRUE]
    /\ UNCHANGED <<csvfile, cache, cache_exists, build_pos, db_vars>>

\* CoursePlannerCLI.clear_command: clear_cache() unlinks the cache file if
\* there is one and returns True, then self.planner.courses.clear(); the
\* index is not touched
ClearCommand ==
    /\ cache' = <<>>
    /\ cache_exists' = FALSE
    /\ courses' = <<>>
    /\ ret' = [op |-> "clear"]
    /\ UNCHANGED <<csvfile, course_index, build_pos, db_vars>>

\* build_index called on the planner as one step; ret keeps the keys the
\* call found in the index
BuildIndexCall ==
    /\ course_index' = BuildIndex(course_index, courses)
    /\ ret' = [op |-> "build", previous |-> DOMAIN course_index]
    /\ UNCHANGED <<csvfile, courses, cache, cache_exists, build_pos, db_vars>>

\* build_index statement by statement, as another thread of a host
\* application sees it: self.course_index.clear()
BuildIndexClear ==
    /\ build_pos = 0
    /\ course_index' = EmptyDict
    /\ build_pos' = 1
    /\ UNCHANGED <<csvfile, courses, cache, cache_exists, ret, db_vars>>

\* one iteration of the loop of build_index
BuildIndexInsert ==
    /\ build_pos >= 1
    /\ build_pos <= Len(courses)
    /\ course_index' = DictSet(course_index,
                               courses[build_pos].course_number,
                               courses[build_pos])
    /\ build_pos' = build_pos + 1
    /\ UNCHANGED <<csvfile, courses, cache, cache_exists, ret, db_vars>>

\* the loop of build_index is exhausted and the call returns
BuildIndexReturn ==
    /\ build_pos = Len(courses) + 1
    /\ build_pos' = 0
    /\ UNCHANGED <<csvfile, courses, course_index, cache, cache_exists, ret,
                   db_vars>>

\* the user replaces the CSV file
EditCsvFile(rows) ==
    /\ csvfile' = rows
    /\ UNCHANGED <<courses, course_index, cache, cache_exists, build_pos, ret,
                   db_vars>>

---------------------------------------------------------------------------
(* database.DatabaseManager: tables *)

\* a row of table courses (course_number is UNIQUE)
CourseRow(course_id, course_number, course_name) ==
    [course_id |-> course_id, course_number |-> course_number,
     course_name |-> course_name]

\* a row of table prerequisites ((course_id, prerequisite_course_id) is UNIQUE)
PrereqRow(course_id, prerequisite_course_id) ==
    [course_id |-> course_id,
     prerequisite_course_id |-> prerequisite_course_id]

\* SELECT ... FROM courses WHERE course_number = ?
SelectCourse(tbl, course_number) ==
    {c \in tbl : c.course_number = course_number}

\* the course_id of the only row of a non-empty single-row selection
OnlyRow(rows) == CHOOSE r \in rows : TRUE

\* byte order of strings (BINARY collation of ORDER BY)

\* the characters in use, in byte order (BINARY collation of ORDER BY)
Alphabet == <<" ", "A", "B", "C", "D", "N", "a", "b", "c", "d", "n">>

CharRank(ch) == CHOOSE i \in 1..Len(Alphabet) : Alphabet[i] = ch

\* s < t in byte order
RECURSIVE StrLess(_, _)
StrLess(s, t) ==
    IF t = <<>> THEN FALSE
    ELSE IF s = <<>> THEN TRUE
    ELSE IF Head(s) # Head(t) THEN CharRank(Head(s)) < CharRank(Head(t))
    ELSE StrLess(Tail(s), Tail(t))

---------------------------------------------------------------------------
(* database.DatabaseManager: add_course, add_prerequisite *)

\* AddCourseResult with the course number trimmed but not upper-cased
AddCourseResultNoUpper(tbl, seq, course_number, course_name) ==
    LET number == Strip(course_number)
        name == Strip(course_name)
    IN IF SelectCourse(tbl, number) # {}
       THEN [courses |-> tbl, seq |-> seq, value |-> 0, ok |-> FALSE]
       ELSE [courses |-> tbl \cup {CourseRow(seq + 1, number, name)},
             seq |-> seq + 1, value |-> seq + 1, ok |-> TRUE]

\* add_course: the tables, the counter and the returned value after the call.
\* A course number already in the table violates UNIQUE: IntegrityError,
\* rollback, None.
AddCourseResult(tbl, seq, course_number, course_name) ==
    LET number == Upper(Strip(course_number))
        name == Strip(course_name)
    IN IF SelectCourse(tbl, number) # {}
       THEN [courses |-> tbl, seq |-> seq, value |-> 0, ok |-> FALSE]
       ELSE [courses |-> tbl \cup {CourseRow(seq + 1, number, name)},
             seq |-> seq + 1, value |-> seq + 1, ok |-> TRUE]

\* AddPrerequisiteResult with the INSERT executed before the prerequisite
\* is looked up (a missing prerequisite is inserted as id 0)
AddPrerequisiteResultInsertFirst(tbl, pre, course_number, prerequisite_number) ==
    LET course_row == SelectCourse(tbl, Upper(Strip(course_number)))
        prereq_row == SelectCourse(tbl, Upper(Strip(prerequisite_number)))
    IN IF course_row = {} THEN [prereqs |-> pre, value |-> FALSE]
       ELSE IF prereq_row = {}
       THEN [prereqs |-> pre \cup {PrereqRow(OnlyRow(course_row).course_id,
                                             0)},
             value |-> FALSE]
       ELSE LET row == PrereqRow(OnlyRow(course_row).course_id,
                                 OnlyRow(prereq_row).course_id)
            IN IF row \in pre
               THEN [prereqs |-> pre, value |-> FALSE]
               ELSE [prereqs |-> pre \cup {row}, value |-> TRUE]

\* add_prerequisite: the prerequisites table and the returned value
AddPrerequisiteResult(tbl, pre, course_number, prerequisite_number) ==
    LET course_row == SelectCourse(tbl, Upper(Strip(course_number)))
        prereq_row == SelectCourse(tbl, Upper(Strip(prerequisite_number)))
    IN IF course_row = {} THEN [prereqs |-> pre, value |-> FALSE]
       ELSE IF prereq_row = {} THEN [prereqs |-> pre, value |-> FALSE]
       ELSE LET row == PrereqRow(OnlyRow(course_row).course_id,
                                 OnlyRow(prereq_row).course_id)
            IN IF row \in pre
               THEN [prereqs |-> pre, value |-> FALSE]
               ELSE [prereqs |-> pre \cup {row}, value |-> TRUE]

---------------------------------------------------------------------------
(* database.DatabaseManager: update_course, delete_course,
   remove_prerequisite *)

\* whether the connection enforces foreign keys: connect() never executes
\* PRAGMA foreign_keys = ON, and SQLite leaves them off by default
ForeignKeys == FALSE

\* what ON DELETE CASCADE leaves of table prerequisites when the courses
\* with these ids are deleted
PrereqsAfterDelete(pre, ids) ==
    IF ForeignKeys
    THEN {p \in pre : p.course_id \notin ids
                      /\ p.prerequisite_course_id \notin ids}
    ELSE pre

\* UpdateCourseResult with the UPDATE lacking its WHERE clause
UpdateCourseResultAllRows(tbl, course_number, new_name) ==
    LET number == Upper(Strip(course_number))
        name == Strip(new_name)
    IN IF SelectCourse(tbl, number) = {}
       THEN [courses |-> tbl, value |-> FALSE]
       ELSE [courses |-> {[c EXCEPT !.course_name = name] : c \in tbl},
             value |-> TRUE]

\* update_course: UPDATE courses SET course_name = ? WHERE course_number = ?;
\* rowcount = 0 returns False
UpdateCourseResult(tbl, course_number, new_name) ==
    LET number == Upper(Strip(course_number))
        name == Strip(new_name)
    IN IF SelectCourse(tbl, number) = {}
       THEN [courses |-> tbl, value |-> FALSE]
       ELSE [courses |-> {IF c.course_number = number
                          THEN [c EXCEPT !.course_name = name]
                          ELSE c : c \in tbl},
             value |-> TRUE]

\* DeleteCourseResult reporting success whatever the row count
DeleteCourseResultAlwaysTrue(tbl, pre, course_number) ==
    LET rows == SelectCourse(tbl, Upper(Strip(course_number)))
    IN [courses |-> tbl \ rows,
        prereqs |-> PrereqsAfterDelete(pre, {c.course_id : c \in rows}),
        value |-> TRUE]

\* delete_course: DELETE FROM courses WHERE course_number = ?;
\* rowcount = 0 returns False
DeleteCourseResult(tbl, pre, course_number) ==
    LET rows == SelectCourse(tbl, Upper(Strip(course_number)))
    IN IF rows = {}
       THEN [courses |-> tbl, prereqs |-> pre, value |-> FALSE]
       ELSE [courses |-> tbl \ rows,
             prereqs |-> PrereqsAfterDelete(pre, {c.course_id : c \in rows}),
             value |-> TRUE]

\* RemovePrerequisiteResult with the DELETE matching on course_id alone
RemovePrerequisiteResultOfCourse(tbl, pre, course_number, prerequisite_number) ==
    LET course_row == SelectCourse(tbl, Upper(Strip(course_number)))
        prereq_row == SelectCourse(tbl, Upper(Strip(prerequisite_number)))
    IN IF course_row = {} \/ prereq_row = {}
       THEN [prereqs |-> pre, value |-> FALSE]
       ELSE LET gone == {p \in pre :
                            p.course_id = OnlyRow(course_row).course_id}
            IN IF gone = {}
               THEN [prereqs |-> pre, value |-> FALSE]
               ELSE [prereqs |-> pre \ gone, value |-> TRUE]

\* remove_prerequisite: DELETE FROM prerequisites WHERE course_id = ? AND
\* prerequisite_course_id = ?; rowcount = 0 returns False
RemovePrerequisiteResult(tbl, pre, course_number, prerequisite_number) ==
    LET course_row == SelectCourse(tbl, Upper(Strip(course_number)))
        prereq_row == SelectCourse(tbl, Upper(Strip(prerequisite_number)))
    IN IF course_row = {} \/ prereq_row = {}
       THEN [prereqs |-> pre, value |-> FALSE]
       ELSE LET row == PrereqRow(OnlyRow(course_row).course_id,
                                 OnlyRow(prereq_row).course_id)
            IN IF row \notin pre
               THEN [prereqs |-> pre, value |-> FALSE]
               ELSE [prereqs |-> pre \ {row}, value |-> TRUE]

---------------------------------------------------------------------------
(* database.DatabaseManager: get_prerequisites, get_course_by_number,
   get_course_count *)

\* ORDER BY c.course_number on a set of course numbers
RECURSIVE SortNumbers(_)
SortNumbers(numbers) ==
    IF numbers = {} THEN <<>>
    ELSE LET first == CHOOSE n \in numbers :
                          \A m \in numbers \ {n} : StrLess(n, m)
         IN <<first>> \o SortNumbers(numbers \ {first})

\* SELECT c.course_number FROM prerequisites p
\*   JOIN courses c ON p.prerequisite_course_id = c.course_id
\*   WHERE p.course_id = ?
PrereqNumbersOfId(tbl, pre, course_id) ==
    {c.course_number : c \in
        {c \in tbl : PrereqRow(course_id, c.course_id) \in pre}}

\* get_prerequisites: the join also requires the course itself to exist
GetPrerequisites(tbl, pre, course_number) ==
    LET c1 == SelectCourse(tbl, Upper(Strip(course_number)))
    IN IF c1 = {} THEN <<>>
       ELSE SortNumbers(PrereqNumbersOfId(tbl, pre, OnlyRow(c1).course_id))

\* get_course_by_number: None, or the Course built from the row and its
\* prerequisites
GetCourseByNumber(tbl, pre, course_number) ==
    LET rows == SelectCourse(tbl, Upper(Strip(course_number)))
    IN IF rows = {} THEN [found |-> FALSE, course |-> NoCourse]
       ELSE [found |-> TRUE,
             course |-> Course(OnlyRow(rows).course_number,
                               OnlyRow(rows).course_name,
                               SortNumbers(PrereqNumbersOfId(
                                   tbl, pre, OnlyRow(rows).course_id)))]

\* get_course_count of the database: SELECT COUNT(*) FROM courses
DbGetCourseCount(tbl) == Cardinality(tbl)

---------------------------------------------------------------------------
(* database.DatabaseManager: migrate_from_csv *)

\* the body of the reader loop of migrate_from_csv for one row
MigrateParseRow(courses_data, row) ==
    IF row = <<>> \/ \A i \in 1..Len(row) : Strip(row[i]) = <<>>
    THEN courses_data
    ELSE IF Len(row) < 2 THEN courses_data
    ELSE Append(courses_data,
                [course_number |-> Upper(Strip(row[1])),
                 course_name |-> Strip(row[2]),
                 prerequisites |->
                     CleanPrerequisites(SubSeq(row, 3, Len(row)))])

RECURSIVE MigrateParseRows(_, _)
MigrateParseRows(courses_data, rows) ==
    IF rows = <<>> THEN courses_data
    ELSE MigrateParseRows(MigrateParseRow(courses_data, Head(rows)),
                          Tail(rows))

\* "insert courses": one INSERT per entry; a repeated course number violates
\* UNIQUE and raises
RECURSIVE MigrateInsertCourses(_, _, _)
MigrateInsertCourses(tbl, seq, courses_data) ==
    IF courses_data = <<>> THEN [ok |-> TRUE, courses |-> tbl, seq |-> seq]
    ELSE IF SelectCourse(tbl, Head(courses_data).course_number) # {}
    THEN [ok |-> FALSE, courses |-> tbl, seq |-> seq]
    ELSE MigrateInsertCourses(
             tbl \cup {CourseRow(seq + 1, Head(courses_data).course_number,
                                 Head(courses_data).course_name)},
             seq + 1, Tail(courses_data))

\* "insert prerequisites" for the k-th prerequisite of one entry onwards;
\* a prerequisite that is not a course of the file is skipped with a warning,
\* a repeated (course, prerequisite) row violates UNIQUE and raises
RECURSIVE MigrateInsertPrereqsOf(_, _, _, _, _)
MigrateInsertPrereqsOf(tbl, acc, course_id, prerequisites, k) ==
    IF ~acc.ok \/ k > Len(prerequisites) THEN acc
    ELSE IF SelectCourse(tbl, prerequisites[k]) = {}
    THEN MigrateInsertPrereqsOf(tbl, acc, course_id, prerequisites, k + 1)
    ELSE LET row == PrereqRow(course_id,
                       OnlyRow(SelectCourse(tbl, prerequisites[k])).course_id)
         IN IF row \in acc.prereqs
            THEN [acc EXCEPT !.ok = FALSE]
            ELSE MigrateInsertPrereqsOf(
                     tbl,
                     [acc EXCEPT !.prereqs = @ \cup {row},
                                 !.inserted = @ + 1],
                     course_id, prerequisites, k + 1)

RECURSIVE MigrateInsertPrereqs(_, _, _)
MigrateInsertPrereqs(tbl, acc, courses_data) ==
    IF ~acc.ok \/ courses_data = <<>> THEN acc
    ELSE MigrateInsertPrereqs(
             tbl,
             MigrateInsertPrereqsOf(
                 tbl, acc,
                 OnlyRow(SelectCourse(tbl,
                             Head(courses_data).course_number)).course_id,
                 Head(courses_data).prerequisites, 1),
             Tail(courses_data))

\* MigrateResult whose failure keeps what the transaction had done so far
\* (the two DELETEs) instead of rolling it back
MigrateResultNoRollback(tbl, pre, seq, rows) ==
    LET courses_data == MigrateParseRows(<<>>, rows)
        ins == MigrateInsertCourses({}, seq, courses_data)
        failed == [courses |-> {}, prereqs |-> {}, seq |-> seq,
                   value |-> <<FALSE, 0, 0>>]
    IN IF ~ins.ok THEN failed
       ELSE LET pins == MigrateInsertPrereqs(
                            ins.courses,
                            [ok |-> TRUE, prereqs |-> {}, inserted |-> 0],
                            courses_data)
            IN IF ~pins.ok THEN failed
               ELSE [courses |-> ins.courses, prereqs |-> pins.prereqs,
                     seq |-> ins.seq,
                     value |-> <<TRUE, Len(courses_data), pins.inserted>>]

\* migrate_from_csv on an existing file: the tables, the counter and the
\* returned tuple.  The whole load is one transaction: any error rolls back.
MigrateResult(tbl, pre, seq, rows) ==
    LET courses_data == MigrateParseRows(<<>>, rows)
        ins == MigrateInsertCourses({}, seq, courses_data)
        failed == [courses |-> tbl, prereqs |-> pre, seq |-> seq,
                   value |-> <<FALSE, 0, 0>>]
    IN IF ~ins.ok THEN failed
       ELSE LET pins == MigrateInsertPrereqs(
                            ins.courses,
                            [ok |-> TRUE, prereqs |-> {}, inserted |-> 0],
                            courses_data)
            IN IF ~pins.ok THEN failed
               ELSE [courses |-> ins.courses, prereqs |-> pins.prereqs,
                     seq |-> ins.seq,
                     value |-> <<TRUE, Len(courses_data), pins.inserted>>]

---------------------------------------------------------------------------
(* database.DatabaseManager: get_prerequisite_chain (recursive CTE) *)

\* pt.level + 1; the level column is an integer of bounded width in the
\* model: it wraps around after MaxLevel
NextLevel(level) == (level + 1) % (MaxLevel + 1)

\* a row of prerequisite_tree (its prereq_id column is never selected)
TreeRow(level, c) ==
    [level |-> level, course_id |-> c.course_id,
     course_number |-> c.course_number, course_name |-> c.course_name]

\* base case of the CTE: the requested course at level 0
ChainBase(tbl, course_number) ==
    {TreeRow(0, c) : c \in SelectCourse(tbl, course_number)}

\* ChainExpand with the join taken from prerequisite to dependent course
ChainExpandReversed(tbl, pre, pt) ==
    {TreeRow(NextLevel(pt.level), c) :
        c \in {c \in tbl : PrereqRow(c.course_id, pt.course_id) \in pre}}

\* recursive case of the CTE for one row pt of prerequisite_tree:
\* prerequisite_tree pt JOIN prerequisites p ON pt.course_id = p.course_id
\*                      JOIN courses c ON p.prerequisite_course_id = c.course_id
ChainExpand(tbl, pre, pt) ==
    {TreeRow(NextLevel(pt.level), c) :
        c \in {c \in tbl : PrereqRow(pt.course_id, c.course_id) \in pre}}

\* the row the CTE takes from its queue next: rows are expanded in the order
\* they were produced, level by level
ChainNextRow(queue) ==
    CHOOSE pt \in queue :
        \A other \in queue :
            \/ pt.level < other.level
            \/ pt.level = other.level /\ pt.course_id <= other.course_id

\* ChainSelect keeping a course only at its smallest level
ChainSelectShortest(rows) ==
    {[level |-> pt.level, course_number |-> pt.course_number,
      course_name |-> pt.course_name, relationship |-> "Prerequisite"] :
        pt \in {r \in rows :
                  /\ r.level > 0
                  /\ \A q \in rows :
                         (q.level > 0 /\ q.course_id = r.course_id)
                             => r.level <= q.level}}

\* ChainSelect without WHERE level > 0
ChainSelectAllLevels(rows) ==
    {[level |-> pt.level, course_number |-> pt.course_number,
      course_name |-> pt.course_name, relationship |-> "Prerequisite"] :
        pt \in rows}

\* SELECT DISTINCT level, course_number, course_name, relationship
\* FROM prerequisite_tree WHERE level > 0
ChainSelect(rows) ==
    {[level |-> pt.level, course_number |-> pt.course_number,
      course_name |-> pt.course_name, relationship |-> "Prerequisite"] :
        pt \in {r \in rows : r.level > 0}}

\* ORDER BY level, course_number
ChainRowBefore(r, q) ==
    \/ r.level < q.level
    \/ r.level = q.level /\ StrLess(r.course_number, q.course_number)

RECURSIVE ChainOrdered(_)
ChainOrdered(selected) ==
    IF selected = {} THEN <<>>
    ELSE LET first == CHOOSE r \in selected :
                          \A q \in selected \ {r} : ChainRowBefore(r, q)
         IN <<first>> \o ChainOrdered(selected \ {first})

---------------------------------------------------------------------------
(* database.DatabaseManager: get_full_prerequisite_chain *)

RECURSIVE OrganizeByLevel(_, _, _)

\* OrganizeByLevel storing a row as the only entry of its level
OrganizeByLevelOverwrites(levels, chain, k) ==
    IF k > Len(chain) THEN levels
    ELSE LET level == chain[k].level
             entry == [course_number |-> chain[k].course_number,
                       course_name |-> chain[k].course_name,
                       relationship |-> chain[k].relationship]
         IN OrganizeByLevel(DictSet(levels, level, <<entry>>), chain, k + 1)

\* "organize by level": the levels dict after the rows of chain from the
\* k-th on have been appended
OrganizeByLevel(levels, chain, k) ==
    IF k > Len(chain) THEN levels
    ELSE LET level == chain[k].level
             entry == [course_number |-> chain[k].course_number,
                       course_name |-> chain[k].course_name,
                       relationship |-> chain[k].relationship]
             old == IF level \in DOMAIN levels THEN levels[level] ELSE <<>>
         IN OrganizeByLevel(DictSet(levels, level, Append(old, entry)),
                            chain, k + 1)

\* max(levels.keys()) if levels else 0
MaxDepth(levels) ==
    IF DOMAIN levels = {} THEN 0
    ELSE CHOOSE d \in DOMAIN levels : \A e \in DOMAIN levels : e <= d

\* {'error': f'Course {course_number} not found'}
ChainNotFound(course_number) ==
    [op |-> "chain", error |-> TRUE, query |-> course_number]

\* FullChainResult taking an empty chain for a failure
FullChainResultEmptyIsError(starting_course, chain) ==
    IF chain = <<>> THEN ChainNotFound(starting_course.course_number)
    ELSE LET levels == OrganizeByLevel(EmptyDict, chain, 1)
         IN [op |-> "chain", error |-> FALSE,
             query |-> starting_course.course_number,
             course |-> [number |-> starting_course.course_number,
                         name |-> starting_course.course_name],
             total_prerequisites |-> Len(chain),
             max_depth |-> MaxDepth(levels),
             levels |-> levels]

\* the dictionary get_full_prerequisite_chain returns for a found course,
\* given the rows get_prerequisite_chain returned
FullChainResult(starting_course, chain) ==
    LET levels == OrganizeByLevel(EmptyDict, chain, 1)
    IN [op |-> "chain", error |-> FALSE,
        query |-> starting_course.course_number,
        course |-> [number |-> starting_course.course_number,
                    name |-> starting_course.course_name],
        total_prerequisites |-> Len(chain),
        max_depth |-> MaxDepth(levels),
        levels |-> levels]

---------------------------------------------------------------------------
(* Database operations *)

NoDbRet == [op |-> "none"]

\* add_course
AddCourse(course_number, course_name) ==
    /\ chain_pc = "idle"
    /\ LET r == AddCourseResult(db_courses, db_seq, course_number, course_name)
       IN /\ r.seq <= MaxCourseId
          /\ db_courses' = r.courses
          /\ db_seq' = r.seq
          /\ db_ret' = [op |-> "add_course", ok |-> r.ok, id |-> r.value]
    /\ UNCHANGED <<db_prereqs, chain_pc, chain_start, chain_queue, chain_rows,
                   planner_vars>>

\* add_prerequisite
AddPrerequisite(course_number, prerequisite_number) ==
    /\ chain_pc = "idle"
    /\ LET r == AddPrerequisiteResult(db_courses, db_prereqs, course_number,
                                      prerequisite_number)
       IN /\ Cardinality(r.prereqs) <= MaxPrereqRows
          /\ db_prereqs' = r.prereqs
          /\ db_ret' = [op |-> "add_prerequisite", added |-> r.value]
    /\ UNCHANGED <<db_courses, db_seq, chain_pc, chain_start, chain_queue,
                   chain_rows, planner_vars>>

\* migrate_from_csv on an existing file with the given rows
MigrateFromCsv(rows) ==
    /\ chain_pc = "idle"
    /\ db_seq + Len(rows) <= MaxCourseId
    /\ \E r \in {MigrateResult(db_courses, db_prereqs, db_seq, rows)} :
          /\ Cardinality(r.prereqs) <= MaxPrereqRows
          /\ db_courses' = r.courses
          /\ db_prereqs' = r.prereqs
          /\ db_seq' = r.seq
          /\ db_ret' = [op |-> "migrate", result |-> r.value]
    /\ UNCHANGED <<chain_pc, chain_start, chain_queue, chain_rows,
                   planner_vars>>

\* migrate_from_csv on a path where there is no file: FileNotFoundError is
\* raised before the transaction and caught by "except Exception"
MigrateFromCsvMissing ==
    /\ chain_pc = "idle"
    /\ db_ret' = [op |-> "migrate", result |-> <<FALSE, 0, 0>>]
    /\ UNCHANGED <<db_courses, db_prereqs, db_seq, chain_pc, chain_start,
                   chain_queue, chain_rows, planner_vars>>

\* update_course
UpdateCourse(course_number, new_name) ==
    /\ chain_pc = "idle"
    /\ LET r == UpdateCourseResult(db_courses, course_number, new_name)
       IN /\ db_courses' = r.courses
          /\ db_ret' = [op |-> "update_course", updated |-> r.value]
    /\ UNCHANGED <<db_prereqs, db_seq, chain_pc, chain_start, chain_queue,
                   chain_rows, planner_vars>>

\* delete_course
DeleteCourse(course_number) ==
    /\ chain_pc = "idle"
    /\ LET r == DeleteCourseResult(db_courses, db_prereqs, course_number)
       IN /\ db_courses' = r.courses
          /\ db_prereqs' = r.prereqs
          /\ db_ret' = [op |-> "delete_course", deleted |-> r.value]
    /\ UNCHANGED <<db_seq, chain_pc, chain_start, chain_queue, chain_rows,
                   planner_vars>>

\* remove_prerequisite
RemovePrerequisite(course_number, prerequisite_number) ==
    /\ chain_pc = "idle"
    /\ LET r == RemovePrerequisiteResult(db_courses, db_prereqs,
                                         course_number, prerequisite_number)
       IN /\ db_prereqs' = r.prereqs
          /\ db_ret' = [op |-> "remove_prerequisite", removed |-> r.value]
    /\ UNCHANGED <<db_courses, db_seq, chain_pc, chain_start, chain_queue,
                   chain_rows, planner_vars>>

\* get_full_prerequisite_chain up to the execution of the recursive query:
\* an unknown start course returns the error value at once
ChainBegin(course_number) ==
    /\ chain_pc = "idle"
    /\ LET number == Upper(Strip(course_number))
           starting_course == SelectCourse(db_courses, Upper(Strip(number)))
       IN IF starting_course = {}
          THEN /\ db_ret' = ChainNotFound(number)
               /\ UNCHANGED <<chain_pc, chain_start, chain_queue, chain_rows>>
          ELSE /\ chain_pc' = "cte"
               /\ chain_start' = number
               /\ chain_queue' = ChainBase(db_courses, Upper(Strip(number)))
               /\ chain_rows' = ChainBase(db_courses, Upper(Strip(number)))
               /\ db_ret' = NoDbRet
    /\ UNCHANGED <<db_courses, db_prereqs, db_seq, planner_vars>>

\* one step of the recursive CTE: take a row from the queue, add the rows the
\* recursive select yields for it (UNION ALL: nothing is filtered out)
ChainStep ==
    /\ chain_pc = "cte"
    /\ chain_queue # {}
    /\ LET pt == ChainNextRow(chain_queue)
           produced == ChainExpand(db_courses, db_prereqs, pt)
       IN /\ chain_queue' = (chain_queue \ {pt}) \cup produced
          /\ chain_rows' = chain_rows \cup produced
    /\ UNCHANGED <<db_courses, db_prereqs, db_seq, chain_pc, chain_start,
                   db_ret, planner_vars>>

\* the queue is empty: the outer select runs, get_prerequisite_chain returns
\* and get_full_prerequisite_chain builds its dictionary
ChainEnd ==
    /\ chain_pc = "cte"
    /\ chain_queue = {}
    /\ db_ret' = FullChainResult(
                     OnlyRow(SelectCourse(db_courses, chain_start)),
                     ChainOrdered(ChainSelect(chain_rows)))
    /\ chain_pc' = "idle"
    /\ chain_start' = <<>>
    /\ chain_rows' = {}
    /\ UNCHANGED <<db_courses, db_prereqs, db_seq, chain_queue, planner_vars>>

---------------------------------------------------------------------------
(* Inputs *)

\* course numbers as they are typed: case and surrounding blanks vary
RawNumbers == {<<"a">>, <<" ", "B">>, <<"c", " ">>}

Digits == <<"1", "2", "3", "4", "5">>

\* the name field of the i-th line of a planner file: every line has a name
\* of its own
LineName == [i \in 1..Len(Digits) |-> <<" ", "n", Digits[i]>>]

\* what a line starts with: a course number, or nothing for an empty line,
\* or "short" for a line that has a single field
LineHeads == RawNumbers \cup {<<>>, <<"short">>}

\* k[1] + ... + k[i]
RECURSIVE SumTo(_, _)
SumTo(k, i) == IF i = 0 THEN 0 ELSE k[i] + SumTo(k, i - 1)

\* how many prerequisite fields each of n lines has: at most per_line on a
\* line, at most fields together, none on a line without a course
FieldCounts(heads, n, per_line, fields) ==
    {k \in [1..n -> 0..per_line] :
        /\ SumTo(k, n) <= fields
        /\ \A i \in 1..n : heads[i] \notin RawNumbers => k[i] = 0}

\* the i-th line of the file with these heads, field counts and prerequisite
\* fields (ps lists the prerequisite fields of all lines one after another)
MkLine(names, heads, k, ps, i) ==
    IF heads[i] = <<>> THEN <<>>
    ELSE IF heads[i] = <<"short">> THEN <<<<"a">>>>
    ELSE <<heads[i], names[i]>>
         \o [j \in 1..k[i] |-> ps[SumTo(k, i - 1) + j]]

\* the file of n lines with these heads, field counts and prerequisite fields
MkFile(names, n, heads, k, ps) ==
    [i \in 1..n |-> MkLine(names, heads, k, ps, i)]

\* what a line of a file of the lookup specification starts with: a course
\* number, a blank course number, or nothing for an empty line
LookupHeads == RawNumbers \cup {<<" ">>, <<>>}

\* the course numbers find_course_fast is asked for
LookupQueries ==
    {<<"a">>, <<"A">>, <<" ", "A", " ">>, <<" ", "B">>, <<"b">>, <<"d">>,
     <<>>, <<" ">>}

\* the course number of the i-th line of a deep catalog: i letters
DeepNumber(i) == [j \in 1..i |-> "a"]

\* what the i-th of n lines of a deep catalog requires: nothing, the next
\* line, the first line or itself
DeepTargets(n, i) == {0, 1, i} \cup {j \in {i + 1} : j <= n}

\* the deep catalog of n lines in which line i requires line t[i]
DeepFile(n, t) ==
    [i \in 1..n |->
        <<DeepNumber(i), <<"n">>>>
        \o (IF t[i] = 0 THEN <<>> ELSE <<DeepNumber(t[i])>>)]

\* the name field of every line of a file given to migrate_from_csv
DbLineName == [i \in 1..Len(Digits) |-> <<" ", "n", "1">>]

\* the course names given to add_course
DbNames == {<<" ", "n", "1">>}

\* the course numbers given to the CRUD operations: two spellings of one
\* course and another course
CrudNumbers == {<<"a">>, <<"A", " ">>, <<" ", "B">>}

\* the course numbers given to add_prerequisite and remove_prerequisite
CrudPrereqNumbers == {<<"a">>, <<" ", "B">>}

\* the new names given to update_course
CrudNewNames == {<<"n", "2", " ">>}

\* a field larger than the field size limit
HugeField == [i \in 1..(FieldSizeLimit + 1) |-> "x"]

\* the lines of a file of the session specification: two courses and a line
\* the reader fails on
SessionLines ==
    {<<<<"a">>, <<" ", "n", "1">>>>, <<<<" ", "B">>, <<" ", "n", "2">>>>,
     <<<<"c">>, HugeField>>}

\* the course numbers find_course_fast is asked for in a session
SessionQueries == {<<"a">>, <<"b", " ">>}

\* the course numbers the readers of the rebuild specification ask for
RebuildQueries == {<<"a">>, <<"b">>}

\* the lines of a file of the migration specification: a course, a course
\* with a prerequisite, a course that lists one prerequisite in two spellings,
\* a course with a prerequisite that is no course, and an empty line
MigrateLines ==
    {<<<<"a">>, <<" ", "n", "1">>>>,
     <<<<" ", "B">>, <<"n", "2", " ">>, <<"a", " ">>>>,
     <<<<"a">>, <<"n", "1">>, <<"B", " ">>, <<" ", "b">>>>,
     <<<<"c", " ">>, <<"n", "3">>, <<"d">>, <<" ">>, <<"c">>>>,
     <<>>}

---------------------------------------------------------------------------
(* Specifications *)

PlannerEmpty ==
    /\ courses = <<>>
    /\ course_index = EmptyDict
    /\ cache = <<>>
    /\ cache_exists = FALSE
    /\ build_pos = 0
    /\ ret = NoRet

DbEmpty ==
    /\ db_courses = {}
    /\ db_prereqs = {}
    /\ db_seq = 0
    /\ chain_pc = "idle"
    /\ chain_start = <<>>
    /\ chain_queue = {}
    /\ chain_rows = {}
    /\ db_ret = NoDbRet

\* the planner: a new CoursePlanner and a CSV file to load
Init ==
    /\ \E n \in 0..MaxRows :
           \E heads \in [1..n -> LineHeads] :
               \E k \in FieldCounts(heads, n, MaxFields, MaxFields) :
                   \E ps \in [1..SumTo(k, n) -> RawNumbers] :
                       csvfile = MkFile(LineName, n, heads, k, ps)
    /\ PlannerEmpty
    /\ DbEmpty

Next ==
    \/ LoadCoursesFromCsv
    \/ Validate
    \/ GetCourseCount

Spec == Init /\ [][Next]_vars

\* the planner asked for courses: files with blank course numbers, without
\* short lines and prerequisite fields
InitLookup ==
    /\ \E n \in 0..MaxLookupRows :
           \E heads \in [1..n -> LookupHeads] :
               \E k \in FieldCounts(heads, n, 0, 0) :
                   \E ps \in [1..SumTo(k, n) -> RawNumbers] :
                       csvfile = MkFile(LineName, n, heads, k, ps)
    /\ PlannerEmpty
    /\ DbEmpty

NextLookup ==
    \/ LoadCoursesFromCsv
    \/ \E q \in LookupQueries : FindCourseFast(q)
    \/ \E q \in LookupQueries : FindCourse(q)

SpecLookup == InitLookup /\ [][NextLookup]_vars

\* the planner given catalogs deeper than the recursion limit
InitDeep ==
    /\ \E n \in 0..MaxChain :
           \E t \in [1..n -> 0..n] :
               /\ \A i \in 1..n : t[i] \in DeepTargets(n, i)
               /\ csvfile = DeepFile(n, t)
    /\ PlannerEmpty
    /\ DbEmpty

NextDeep ==
    \/ LoadCoursesFromCsv
    \/ Validate

SpecDeep == InitDeep /\ [][NextDeep]_vars

\* the database: a new DatabaseManager after create_schema
InitDb ==
    /\ csvfile = <<>>
    /\ PlannerEmpty
    /\ DbEmpty

NextDb ==
    \/ \E n \in RawNumbers, name \in DbNames : AddCourse(n, name)
    \/ \E a \in RawNumbers, b \in RawNumbers : AddPrerequisite(a, b)
    \/ \E n \in 0..MaxDbRows :
           /\ db_seq + n <= MaxCourseId
           /\ \E heads \in [1..n -> LineHeads] :
                  \E k \in FieldCounts(heads, n, MaxDbPrereqs,
                                        MaxDbPrereqs) :
                      \E ps \in [1..SumTo(k, n) -> RawNumbers] :
                          MigrateFromCsv(MkFile(DbLineName, n, heads, k, ps))
    \/ \E n \in RawNumbers : ChainBegin(n)
    \/ ChainStep
    \/ ChainEnd

SpecDb == InitDb /\ [][NextDb]_vars

\* the database under its CRUD operations
NextCrud ==
    \/ \E n \in CrudNumbers, name \in DbNames :
           AddCourse(n, name) /\ db_seq' <= MaxCrudId
    \/ \E n \in CrudNumbers, name \in CrudNewNames : UpdateCourse(n, name)
    \/ \E n \in CrudNumbers : DeleteCourse(n)
    \/ \E a \in CrudPrereqNumbers, b \in CrudPrereqNumbers :
           AddPrerequisite(a, b) /\ Cardinality(db_prereqs') <= MaxCrudPrereqs
    \/ \E a \in CrudPrereqNumbers, b \in CrudPrereqNumbers :
           RemovePrerequisite(a, b)

SpecCrud == InitDb /\ [][NextCrud]_vars

\* one planner over a session: the file is edited and loaded, the cache is
\* loaded and cleared, the index is rebuilt, courses are looked up
InitSession ==
    /\ csvfile = <<>>
    /\ PlannerEmpty
    /\ DbEmpty

NextSession ==
    \/ \E n \in 0..MaxSessionRows :
           \E rows \in [1..n -> SessionLines] : EditCsvFile(rows)
    \/ LoadCoursesFromCsv
    \/ LoadFromCache
    \/ ClearCommand
    \/ BuildIndexCall
    \/ \E q \in SessionQueries : FindCourseFast(q)

SpecSession == InitSession /\ [][NextSession]_vars

\* a host application with threads: one rebuilds the index of the loaded
\* catalog while others look courses up and validate
InitRebuild ==
    /\ \E n \in 0..MaxRebuildRows :
           \E heads \in [1..n -> LineHeads] :
               \E k \in FieldCounts(heads, n, MaxRebuildFields,
                                     MaxRebuildFields) :
                   \E ps \in [1..SumTo(k, n) -> RawNumbers] :
                       csvfile = MkFile(LineName, n, heads, k, ps)
    /\ PlannerEmpty
    /\ DbEmpty

NextRebuild ==
    \/ build_pos = 0 /\ LoadCoursesFromCsv
    \/ BuildIndexClear
    \/ BuildIndexInsert
    \/ BuildIndexReturn
    \/ \E q \in RebuildQueries : FindCourseFast(q)
    \/ Validate

SpecRebuild == InitRebuild /\ [][NextRebuild]_vars

\* the database given one CSV file to migrate, again and again, between
\* calls of add_course and add_prerequisite
InitMigrate ==
    /\ \E n \in 0..MaxMigrateRows :
           \E rows \in [1..n -> MigrateLines] : csvfile = rows
    /\ PlannerEmpty
    /\ DbEmpty

NextMigrate ==
    \/ MigrateFromCsv(csvfile)
    \/ MigrateFromCsvMissing
    \/ \E n \in CrudPrereqNumbers, name \in DbNames : AddCourse(n, name)
    \/ \E a \in CrudPrereqNumbers, b \in CrudPrereqNumbers :
           AddPrerequisite(a, b)

SpecMigrate == InitMigrate /\ [][NextMigrate]_vars

\* the recursive query is executed by SQLite without interruption: once it
\* has started, its steps keep being taken
SpecDbFair == SpecDb /\ WF_vars(ChainStep) /\ WF_vars(ChainEnd)

---------------------------------------------------------------------------
(* The prerequisite graph of the planner, as the claims speak of it *)

\* (course, prerequisite) pairs of the course list whose prerequisite is not
\* a key of the index
DanglingPairs ==
    {pair \in UNION {{<<courses[i].course_number, p>> :
                          p \in Range(courses[i].prerequisites)} :
                     i \in 1..Len(courses)} :
        pair[2] \notin DOMAIN course_index}

\* b is a direct prerequisite of a, both indexed
IndexEdge(a, b) ==
    /\ a \in DOMAIN course_index
    /\ b \in DOMAIN course_index
    /\ b \in Range(course_index[a].prerequisites)

\* the courses reachable from the set S in at most n more edges
RECURSIVE IndexReach(_, _)
IndexReach(S, n) ==
    IF n = 0 THEN S
    ELSE IndexReach(S \cup {b \in DOMAIN course_index :
                               \E a \in S : IndexEdge(a, b)}, n - 1)

\* a lies on a cycle of the prerequisite graph
IndexOnCycle(a) ==
    a \in IndexReach({b \in DOMAIN course_index : IndexEdge(a, b)},
                     Cardinality(DOMAIN course_index))

IndexAcyclic == \A a \in DOMAIN course_index : ~IndexOnCycle(a)

\* how many entries of the sequence satisfy the test
CountMissing(errors, course, prereq) ==
    Cardinality({i \in 1..Len(errors) :
                    errors[i] = MissingError(course, prereq)})

CountCyclePair(errors, a, b) ==
    Cardinality({i \in 1..Len(errors) :
                    /\ errors[i].kind = "cycle"
                    /\ {errors[i].course, errors[i].prereq} = {a, b}})

---------------------------------------------------------------------------
(* Claims about validate_prerequisites and the index *)

C2_OneEntryPerDanglingPair ==
    (ret.op = "validate" /\ DanglingPairs # {})
        => /\ ~ret.value.is_valid
           /\ \A pair \in DanglingPairs :
                  CountMissing(ret.value.errors, pair[1], pair[2]) = 1
           /\ \A i \in 1..Len(ret.value.errors) :
                  ret.value.errors[i].kind = "missing"
                      => <<ret.value.errors[i].course,
                           ret.value.errors[i].prereq>> \in DanglingPairs

\* C3: when the only cycle of the catalog is the two-node cycle a requires b,
\* b requires a, exactly one circular-dependency problem is reported for the
\* unordered pair {a, b}, whatever the order of the course list.
C3_TwoNodeCycleReportedOnce ==
    ret.op = "validate"
        => \A a \in DOMAIN course_index, b \in DOMAIN course_index :
               (/\ a # b
                /\ IndexEdge(a, b)
                /\ IndexEdge(b, a)
                /\ ~IndexEdge(a, a)
                /\ ~IndexEdge(b, b)
                /\ {c \in DOMAIN course_index : IndexOnCycle(c)} = {a, b})
                   => CountCyclePair(ret.value.errors, a, b) = 1

C3_Witness ==
    /\ ret.op = "validate"
    /\ Len(courses) = 2
    /\ courses[1].course_number = <<"B">>
    /\ courses[2].course_number = <<"A">>
    /\ courses[1].prerequisites = <<<<"A">>>>
    /\ courses[2].prerequisites = <<<<"B">>>>
    /\ CountCyclePair(ret.value.errors, <<"A">>, <<"B">>) = 1

\* C4: when an indexed course a lists itself as a prerequisite,
\* validate_prerequisites returns is_valid = False and the problems hold a
\* circular-dependency problem naming a.
C4_SelfReferenceReported ==
    ret.op = "validate"
        => \A a \in DOMAIN course_index :
               IndexEdge(a, a)
                   => /\ ~ret.value.is_valid
                      /\ \E i \in 1..Len(ret.value.errors) :
                             /\ ret.value.errors[i].kind = "cycle"
                             /\ a \in {ret.value.errors[i].course,
                                       ret.value.errors[i].prereq}

\* C10: when several records share an identifier, the index holds one record
\* per distinct identifier, that record is the last one of the list with the
\* identifier, and the course count the engine reports is the number of
\* distinct identifiers.
C10_LastWinsAndCountDistinct ==
    LET numbers == {courses[i].course_number : i \in 1..Len(courses)}
    IN /\ DOMAIN course_index = numbers
       /\ \A i \in 1..Len(courses) :
              (\A j \in (i + 1)..Len(courses) :
                   courses[j].course_number # courses[i].course_number)
                  => course_index[courses[i].course_number] = courses[i]
       /\ ret.op = "count" => ret.count = Cardinality(numbers)

---------------------------------------------------------------------------
(* Claims about find_course_fast and the results of validation *)

\* the same letter up to case
SameLetter(x, y) == x = y \/ UpperChar(x) = y \/ UpperChar(y) = x

\* q[i..j] is what remains of q when blanks are taken away from both ends
IsMiddle(q, i, j) ==
    /\ j >= i - 1
    /\ j <= Len(q)
    /\ \A m \in 1..(i - 1) : q[m] = " "
    /\ \A m \in (j + 1)..Len(q) : q[m] = " "
    /\ j >= i => (q[i] # " " /\ q[j] # " ")

\* the parts of q that remain when blanks are taken away from both ends
Middles(q) ==
    {SubSeq(q, ij[1], ij[2]) : ij \in
        {ij \in (1..(Len(q) + 1)) \X (0..Len(q)) :
            IsMiddle(q, ij[1], ij[2])}}

\* q1 and q2 differ only in letter case or surrounding blanks
DiffersOnlyInCaseAndBlanks(q1, q2) ==
    \E m1 \in Middles(q1), m2 \in Middles(q2) :
        /\ Len(m1) = Len(m2)
        /\ \A i \in 1..Len(m1) : SameLetter(m1[i], m2[i])

\* the pairs of queries that differ only in letter case or surrounding blanks
SameQueries ==
    {qq \in LookupQueries \X LookupQueries :
        DiffersOnlyInCaseAndBlanks(qq[1], qq[2])}

\* C11: find_course_fast gives the same answer for two queries that differ
\* only in letter case or surrounding blanks; it finds the record whose
\* number differs from the query only in that way, and for a query that
\* matches no record it returns None without raising.
C11_LookupNormalizesQuery ==
    /\ \A qq \in SameQueries :
           FindCourseFastValue(course_index, qq[1])
               = FindCourseFastValue(course_index, qq[2])
    /\ ret.op = "find"
           => /\ ~ret.result.raised
              /\ ret.result.found
                     <=> \E i \in 1..Len(courses) :
                             courses[i].course_number
                                 = Upper(Strip(ret.query))
              /\ ret.result.found
                     => ret.result.course.course_number
                            = Upper(Strip(ret.query))
              /\ ~ret.result.found => ret.result.course = NoCourse

\* a lower-case query finds the upper-case record, as the query padded with
\* a blank does
C11_Witness ==
    /\ ret.op = "find"
    /\ ret.query = <<"b">>
    /\ ret.result.found
    /\ ret.result.course.course_number = <<"B">>
    /\ FindCourseFastValue(course_index, <<" ", "B">>) = ret.result

\* C12: the boolean validate_prerequisites returns is True exactly when the
\* problems list it returns is empty.
C12_ValidIffNoProblems ==
    (ret.op = "validate" /\ ~ret.value.raised)
        => (ret.value.is_valid <=> ret.value.errors = <<>>)

\* a catalog whose only problems are dangling references
C12_Witness ==
    /\ ret.op = "validate"
    /\ ~ret.value.raised
    /\ ~ret.value.is_valid
    /\ ret.value.errors # <<>>
    /\ \A i \in 1..Len(ret.value.errors) : ret.value.errors[i].kind = "missing"

\* C13: validate_prerequisites returns a (bool, list) pair without raising
\* for every catalog, whatever its dangling references, self-references,
\* cycles and duplicates.
C13_ValidateNeverRaises ==
    ret.op = "validate" => ~ret.value.raised

\* C14: an empty identifier is refused: the index never holds an entry under
\* the empty key, and a lookup whose query is empty after trimming aborts
\* instead of returning a found / not found answer.
C14_EmptyIdentifierAborts ==
    /\ <<>> \notin DOMAIN course_index
    /\ (ret.op = "find" /\ Strip(ret.query) = <<>>) => ret.result.raised

---------------------------------------------------------------------------
(* The prerequisite graph of the database, as the claims speak of it *)

\* the row of the course with this number
DbCourse(course_number) == OnlyRow(SelectCourse(db_courses, course_number))

\* prerequisite edges between existing courses, as pairs of course_id
DbEdges ==
    {<<p.course_id, p.prerequisite_course_id>> : p \in
        {p \in db_prereqs :
            /\ \E c \in db_courses : c.course_id = p.course_id
            /\ \E c \in db_courses : c.course_id = p.prerequisite_course_id}}

\* the ids of the courses at the end of a path of exactly d edges from id
RECURSIVE DbPathEnds(_, _)
DbPathEnds(id, d) ==
    IF d = 0 THEN {id}
    ELSE {e[2] : e \in {e \in DbEdges : e[1] \in DbPathEnds(id, d - 1)}}

DbAcyclic ==
    \A c \in db_courses :
        \A d \in 1..Cardinality(db_courses) :
            c.course_id \notin DbPathEnds(c.course_id, d)

\* how many entries of level d of the returned dictionary name the course
CountInLevel(result, d, course_number) ==
    IF d \notin DOMAIN result.levels THEN 0
    ELSE Cardinality({i \in 1..Len(result.levels[d]) :
                         result.levels[d][i].course_number = course_number})

\* the entry of a level list for a row of table courses
LevelEntry(c) ==
    [course_number |-> c.course_number, course_name |-> c.course_name,
     relationship |-> "Prerequisite"]

\* the sequences that list every element of S once
Orderings(S) ==
    {s \in [1..Cardinality(S) -> S] : \A x \in S : \E i \in DOMAIN s : s[i] = x}

---------------------------------------------------------------------------
(* Claims about the prerequisite chain query *)

\* C5: the prerequisite chain query terminates for every start course in
\* every database state reachable through add_course, add_prerequisite and
\* migrate_from_csv, also when the prerequisite graph has a cycle or a
\* self-reference.
C5_ChainQueryTerminates == (chain_pc = "cte") ~> (chain_pc = "idle")

C9_ErrorIffUnknownStart ==
    db_ret.op = "chain"
        => (db_ret.error <=> SelectCourse(db_courses, db_ret.query) = {})

C9_Witness ==
    /\ db_ret.op = "chain"
    /\ db_ret.error
    /\ db_courses # {}
    /\ SelectCourse(db_courses, db_ret.query) = {}

---------------------------------------------------------------------------
(* Claims about the CRUD operations of the database *)

\* the rows of table courses whose number is this one once it is trimmed
\* and upper-cased
DbRowsNamed(course_number) ==
    {c \in db_courses : c.course_number = Upper(Strip(course_number))}

\* C15: every row of table prerequisites references two existing courses:
\* the prerequisite rows of a deleted course are deleted with it.
C15_NoOrphanPrerequisites ==
    \A p \in db_prereqs :
        /\ \E c \in db_courses : c.course_id = p.course_id
        /\ \E c \in db_courses : c.course_id = p.prerequisite_course_id

\* C16: a call of add_course, update_course, delete_course,
\* add_prerequisite or remove_prerequisite that reports failure leaves
\* tables courses and prerequisites as they were before the call.
C16_FailureLeavesTables ==
    [][(\/ db_ret'.op = "add_course" /\ ~db_ret'.ok
        \/ db_ret'.op = "update_course" /\ ~db_ret'.updated
        \/ db_ret'.op = "delete_course" /\ ~db_ret'.deleted
        \/ db_ret'.op = "add_prerequisite" /\ ~db_ret'.added
        \/ db_ret'.op = "remove_prerequisite" /\ ~db_ret'.removed)
           => (db_courses' = db_courses /\ db_prereqs' = db_prereqs)]_vars

\* add_prerequisite refused while the tables hold courses and prerequisites
C16_Witness ==
    /\ db_ret.op = "add_prerequisite"
    /\ ~db_ret.added
    /\ Cardinality(db_courses) = 1
    /\ db_prereqs # {}

\* C17: add_course returns a course id for a course number that is not in
\* the table and None for one that, trimmed and upper-cased, is;
\* no two rows of table courses have the same course number.
C17_AddCourseUnique ==
    /\ \A c1 \in db_courses, c2 \in db_courses :
           c1.course_number = c2.course_number => c1 = c2
    /\ \A n \in CrudNumbers, name \in DbNames :
           \A r \in {AddCourseResult(db_courses, db_seq, n, name)} :
              IF DbRowsNamed(n) # {}
              THEN ~r.ok /\ r.courses = db_courses
              ELSE /\ r.ok
                   /\ \A c \in db_courses : c.course_id # r.value
                   /\ \E c \in r.courses :
                          /\ c.course_id = r.value
                          /\ c.course_number = Upper(Strip(n))
                          /\ r.courses = db_courses \cup {c}

\* a second spelling of an existing course number was refused
C17_Witness ==
    /\ db_ret.op = "add_course"
    /\ ~db_ret.ok
    /\ Cardinality(db_courses) = 2

\* C18: delete_course of an existing course returns True, after which
\* get_course_by_number returns None for it and get_course_count is one
\* less; delete_course of a course that does not exist returns False and
\* leaves the count as it was.
C18_DeleteCourse ==
    \A n \in CrudNumbers :
        \A r \in {DeleteCourseResult(db_courses, db_prereqs, n)} :
           IF DbRowsNamed(n) # {}
           THEN /\ r.value
                /\ ~GetCourseByNumber(r.courses, r.prereqs, n).found
                /\ DbGetCourseCount(r.courses)
                       = DbGetCourseCount(db_courses) - 1
           ELSE /\ ~r.value
                /\ DbGetCourseCount(r.courses) = DbGetCourseCount(db_courses)

\* one of two courses was deleted
C18_Witness ==
    /\ db_ret.op = "delete_course"
    /\ db_ret.deleted
    /\ Cardinality(db_courses) = 1
    /\ db_seq = 2

\* C19: when add_prerequisite(a, b) returns True, b is in
\* get_prerequisites(a); the remove_prerequisite(a, b) that follows returns
\* True, b is no longer in get_prerequisites(a), and get_prerequisites of
\* every course is what it was before the add.
C19_AddRemoveRoundTrip ==
    \A a \in CrudPrereqNumbers, b \in CrudPrereqNumbers :
        \A added \in {AddPrerequisiteResult(db_courses, db_prereqs, a, b)} :
        \A removed \in {RemovePrerequisiteResult(db_courses, added.prereqs,
                                                  a, b)} :
           added.value
               => /\ Upper(Strip(b))
                         \in Range(GetPrerequisites(db_courses,
                                                    added.prereqs, a))
                  /\ removed.value
                  /\ Upper(Strip(b))
                         \notin Range(GetPrerequisites(db_courses,
                                                       removed.prereqs, a))
                  /\ \A c \in CrudNumbers :
                         GetPrerequisites(db_courses, removed.prereqs, c)
                             = GetPrerequisites(db_courses, db_prereqs, c)

\* a prerequisite was removed from a course that keeps another one
C19_Witness ==
    /\ db_ret.op = "remove_prerequisite"
    /\ db_ret.removed
    /\ \E a \in CrudPrereqNumbers :
           Len(GetPrerequisites(db_courses, db_prereqs, a)) = 1

\* C20: update_course of an existing course returns True, after which
\* get_course_by_number gives it the new name without surrounding blanks,
\* the same course number and the same prerequisites, every other row of
\* table courses and the course count are unchanged; update_course of a
\* course that does not exist returns False.
C20_UpdateCourseFrame ==
    \A n \in CrudNumbers, name \in CrudNewNames :
        \A r \in {UpdateCourseResult(db_courses, n, name)} :
        \A before \in {GetCourseByNumber(db_courses, db_prereqs, n)} :
        \A after \in {GetCourseByNumber(r.courses, db_prereqs, n)} :
           IF DbRowsNamed(n) # {}
           THEN /\ r.value
                /\ after.found
                /\ after.course.name = Strip(name)
                /\ after.course.course_number = before.course.course_number
                /\ after.course.prerequisites = before.course.prerequisites
                /\ \A c \in db_courses :
                       c \notin DbRowsNamed(n) => c \in r.courses
                /\ {c.course_id : c \in r.courses}
                       = {c.course_id : c \in db_courses}
                /\ DbGetCourseCount(r.courses) = DbGetCourseCount(db_courses)
           ELSE ~r.value /\ r.courses = db_courses

\* one of two courses was renamed
C20_Witness ==
    /\ db_ret.op = "update_course"
    /\ db_ret.updated
    /\ \E c1 \in db_courses, c2 \in db_courses :
           /\ c1.course_name = <<"n", "2">>
           /\ c2.course_name = <<"n", "1">>

---------------------------------------------------------------------------
(* Claims about the cycle pass *)

\* the sets of the cycle pass when validate_prerequisites returns
FinalSets == CyclePass(course_index, courses, Len(courses)).sets

\* C21: every circular-dependency problem "X requires Y" names a real cycle:
\* Y is a direct prerequisite of X and X is reachable from Y along
\* prerequisite edges.
C21_CycleProblemNamesCycle ==
    ret.op = "validate"
        => \A i \in 1..Len(ret.value.errors) :
               ret.value.errors[i].kind = "cycle"
                   => /\ IndexEdge(ret.value.errors[i].course,
                                   ret.value.errors[i].prereq)
                      /\ ret.value.errors[i].course
                             \in IndexReach({ret.value.errors[i].prereq},
                                            Cardinality(DOMAIN course_index))

\* C22: between two root traversals of the cycle pass and when
\* validate_prerequisites returns, the in-progress set is empty, and at the
\* return every indexed course is visited, also when a cycle was found.
C22_InProgressEmptyBetweenRoots ==
    ret.op = "validate"
        => /\ \A n \in 0..Len(courses) :
                  CyclePass(course_index, courses, n).sets.in_progress = {}
           /\ DOMAIN course_index \subseteq FinalSets.visited

\* C23: within one call of validate_prerequisites no unordered pair of
\* courses appears in more than one circular-dependency problem.
C23_PairReportedAtMostOnce ==
    ret.op = "validate"
        => \A i \in 1..Len(ret.value.errors) :
               \A j \in (i + 1)..Len(ret.value.errors) :
                   (/\ ret.value.errors[i].kind = "cycle"
                    /\ ret.value.errors[j].kind = "cycle")
                       => {ret.value.errors[i].course,
                           ret.value.errors[i].prereq}
                              # {ret.value.errors[j].course,
                                 ret.value.errors[j].prereq}

\* a two-node cycle met from both roots: the second root finds its partner
\* still in progress and the pair already in reported_cycles
C23_Witness ==
    /\ ret.op = "validate"
    /\ Len(courses) = 2
    /\ courses[1].course_number = <<"A">>
    /\ courses[2].course_number = <<"B">>
    /\ IndexEdge(<<"A">>, <<"B">>)
    /\ IndexEdge(<<"B">>, <<"A">>)
    /\ <<"B">> \in FinalSets.in_progress
    /\ CountCyclePair(ret.value.errors, <<"A">>, <<"B">>) = 1

---------------------------------------------------------------------------
(* Claims about the index, the course records and the two lookups *)

\* the course numbers of the course list
CourseNumbers == {courses[i].course_number : i \in 1..Len(courses)}

\* C24: after any sequence of load_courses_from_csv (successful or failing
\* part-way), load_from_cache (successful or failing) and the CLI clear
\* command, the key set of course_index equals the set of course numbers in
\* courses, and find_course_fast finds a course exactly when it is in the
\* course list.
C24_IndexAgreesWithCatalog ==
    /\ DOMAIN course_index = CourseNumbers
    /\ ret.op = "find"
           => (ret.result.found <=> Upper(Strip(ret.query)) \in CourseNumbers)

\* C25: a lookup or a validation interleaved with a rebuild of the index
\* sees the complete index of the catalog (the one from before the rebuild,
\* which is also the one after it), never a partially built one.
C25_ReadersSeeCompleteIndex ==
    /\ ret.op = "find"
           => ret.result
                  = FindCourseFastValue(BuildIndex(EmptyDict, courses),
                                        ret.query)
    /\ ret.op = "validate"
           => ret.value
                  = ValidatePrerequisites(BuildIndex(EmptyDict, courses),
                                          courses)

\* C27: the prerequisites of a Course record are trimmed, upper-cased and
\* non-blank, keep the order of the input fields, and hold no identifier
\* more than once.
C27_PrerequisitesCleanAndUnique ==
    /\ \A i \in 1..Len(courses) :
           \A k \in 1..Len(courses[i].prerequisites) :
               /\ courses[i].prerequisites[k] # <<>>
               /\ courses[i].prerequisites[k]
                      = Upper(Strip(courses[i].prerequisites[k]))
               /\ \A m \in (k + 1)..Len(courses[i].prerequisites) :
                      /\ courses[i].prerequisites[k]
                             # courses[i].prerequisites[m]
                      /\ Len(courses) = Len(csvfile)
                             => \E j \in 3..Len(csvfile[i]) :
                                    \E l \in (j + 1)..Len(csvfile[i]) :
                                        /\ Upper(Strip(csvfile[i][j]))
                                               = courses[i].prerequisites[k]
                                        /\ Upper(Strip(csvfile[i][l]))
                                               = courses[i].prerequisites[m]

\* C28: after build_index, whatever the index held before, the index has an
\* entry for an identifier exactly when some record of the course list has
\* that identifier, and every entry is stored under its own course_number.
C28_BuildIndexReplacesWholesale ==
    (\/ ret.op = "build"
     \/ (ret.op \in {"load", "cache"} /\ ret.loaded))
        => /\ DOMAIN course_index = CourseNumbers
           /\ \A id \in DOMAIN course_index :
                  course_index[id].course_number = id

\* build_index ran on an index that still held the entries of a catalog
\* which the clear command had emptied
C28_Witness ==
    /\ ret.op = "build"
    /\ ret.previous # {}
    /\ ret.previous \cap CourseNumbers = {}
    /\ course_index = EmptyDict

\* C29: for every query string find_course_fast and find_course return the
\* same record or both return None, also when several records share an
\* identifier.
C29_LookupsAgree ==
    /\ ret.op = "find"
           => ret.result = FindCourseValue(courses, ret.query)
    /\ ret.op = "find_linear"
           => ret.result = FindCourseFastValue(course_index, ret.query)

---------------------------------------------------------------------------
(* Claims about migrate_from_csv and the chain dictionary *)

\* the lines of a CSV file that stand for a course
CourseLines(rows) ==
    {i \in 1..Len(rows) :
        /\ Len(rows[i]) >= 2
        /\ \E j \in 1..Len(rows[i]) : Strip(rows[i][j]) # <<>>}

\* the (course number, course name) pairs of a CSV file
CsvCourses(rows) ==
    {<<Upper(Strip(rows[i][1])), Strip(rows[i][2])>> : i \in CourseLines(rows)}

\* the (course number, prerequisite number) pairs of a CSV file whose
\* prerequisite is a course of the file
CsvPrereqs(rows) ==
    {pair \in UNION {{<<Upper(Strip(rows[i][1])), Upper(Strip(rows[i][j]))>> :
                          j \in 3..Len(rows[i])} : i \in CourseLines(rows)} :
        \E c \in CsvCourses(rows) : c[1] = pair[2]}

\* the course number stored under a course id in a courses table
NumberOfId(tbl, id) == (CHOOSE c \in tbl : c.course_id = id).course_number

\* C26: migrate_from_csv (of the file csvfile) is atomic: when it returns success = False the
\* courses and prerequisites tables hold exactly the rows they held before
\* the call; when it returns success = True they hold exactly the courses of
\* the CSV and, for each course, its listed prerequisites that are courses of
\* the CSV, and no row of the previous contents.
C26_MigrateAtomic ==
    [][db_ret'.op = "migrate"
          => IF ~db_ret'.result[1]
             THEN db_courses' = db_courses /\ db_prereqs' = db_prereqs
             ELSE /\ {<<c.course_number, c.course_name>> : c \in db_courses'}
                         = CsvCourses(csvfile)
                  /\ Cardinality(db_courses')
                         = Cardinality(CourseLines(csvfile))
                  /\ \A c \in db_courses' : c.course_id > db_seq
                  /\ \A p \in db_prereqs' :
                         /\ \E c \in db_courses' : c.course_id = p.course_id
                         /\ \E c \in db_courses' :
                                c.course_id = p.prerequisite_course_id
                  /\ {<<NumberOfId(db_courses', p.course_id),
                        NumberOfId(db_courses', p.prerequisite_course_id)>> :
                          p \in db_prereqs'}
                         = CsvPrereqs(csvfile)]_vars

\* a migration that failed on a duplicate course number while the tables
\* held a course and a prerequisite row
C26_Witness ==
    /\ db_ret.op = "migrate"
    /\ ~db_ret.result[1]
    /\ Len(csvfile) = 2
    /\ db_courses # {}
    /\ db_prereqs # {}

\* the number of entries of the levels 1..d of a levels mapping
RECURSIVE EntriesUpTo(_, _)
EntriesUpTo(levels, d) ==
    IF d = 0 THEN 0
    ELSE EntriesUpTo(levels, d - 1)
             + (IF d \in DOMAIN levels THEN Len(levels[d]) ELSE 0)

\* the course numbers listed at depth d of a chain result; depth 0 is the
\* start course
NumbersAtDepth(result, d) ==
    IF d = 0 THEN {result.query}
    ELSE {result.levels[d][i].course_number : i \in 1..Len(result.levels[d])}

====
